---- MODULE Spec2Model ----
(***************************************************************************)
(* Model of the event-ordering pipeline of src/main.js: the event slot     *)
(* registry (createEventSlot / completeEvent / finalizeCompletedEvents /   *)
(* clearEventSlots), the session controller (startRecording /              *)
(* stopRecording), the input handlers that feed the registry, the cache of *)
(* the application window bounds (updateCachedAppBounds /                  *)
(* getCachedAppBounds) and the focus poller that refreshes it.             *)
(*                                                                         *)
(* JavaScript runs the handlers on one event loop: code between two        *)
(* `await`s is atomic, and every `await` is a point where other callbacks  *)
(* may run.  Each action below is one such atomic piece.                   *)
(***************************************************************************)
EXTENDS Integers, Sequences, FiniteSets, TLC

VARIABLES
  isRecording,          \* main.js:12
  sessionData,          \* main.js:15   the session record (events = the ordered log)
  eventCounter,         \* main.js:21
  eventSlots,           \* main.js:26   Map eventId -> slot
  maxCompletedEventId,  \* main.js:27
  now,                  \* Date.now()
  listening,            \* uIOhook listeners registered (startEventListeners / stopEventListeners)
  startsPending,        \* startRecording calls suspended between the reset and startEventListeners
  stopsPending,         \* stopRecording calls suspended on captureFinalScreenshot
  handlers,             \* mouse handlers suspended on getApplicationWindowBounds
  completions,          \* completeEvent calls suspended on the render delay / the capture
  arrivals,             \* history: number of input events delivered so far
  session,              \* history: number of sessions started so far
  created,              \* history: the createEventSlot calls of the current session
  secondCalls,          \* history: complete calls made on a handle after its first one finished
  currentTaskName,      \* main.js:13
  savesPending,         \* setImmediate callbacks of stopRecording not yet run (main.js:1986)
  sessionFile,          \* data/<task>/session_data.json
  startCalls,           \* history: startRecording calls made while a recording was active
  cachedAppBounds,      \* main.js:36
  cachedAppWindow,      \* main.js:37
  lastBoundsUpdate,     \* main.js:38
  boundsUpdateInProgress, \* main.js:39
  updates,              \* updateCachedAppBounds calls suspended on one of their awaits
  lastReturn,           \* history: what the last bounds lookup that returned gave its caller
  focusChangeInterval,  \* main.js:928   the 500 ms interval is set
  lastActiveWindowId,   \* main.js:929
  probes,               \* poller ticks suspended on getActiveApplicationWindow
  refreshTimers,        \* debounce timers of the poller not yet fired (main.js:947)
  activeWindow,         \* the frontmost application window, "none" when there is none
  horizon,              \* the last value of the clock in this behaviour
  lookups,              \* history: bounds lookups issued by input handlers so far
  pollTicks,            \* history: ticks of the focus poller so far
  lastMouseDown,        \* main.js:2094
  scrollAccumulator,    \* main.js:2099
  scrollDebounceTimer,  \* main.js:2098  the 300 ms timer is set
  flushes,              \* captureScrollSequence calls suspended on getApplicationWindowBounds
  wheels,               \* history: wheel samples delivered so far
  recorderKind,         \* "native" (macOS) or "ffmpeg": the recorder startVideoRecording uses
  procs,                \* per display: the recorder process and the stop operation on it
  managed,              \* nativeScreenRecordingProcesses / ffmpegProcesses (main.js:265, 268)
  stopAlls,             \* setImmediate callbacks of stopVideoRecording not yet run
  stopAll,              \* stopNativeScreenRecording / stopDirectFFmpegRecording: its progress
  startReply,           \* history: what startRecording gave its caller
  stopReply,            \* history: what the last stopRecording gave its caller
  saveOutcome           \* history: how the last write of the session file ended

regVars == <<isRecording, sessionData, eventCounter, eventSlots, maxCompletedEventId,
             now, listening, startsPending, stopsPending, handlers, completions,
             arrivals, session, created, secondCalls>>

ctlVars == <<currentTaskName, savesPending, sessionFile, startCalls>>

cacheVars == <<cachedAppBounds, cachedAppWindow, lastBoundsUpdate,
               boundsUpdateInProgress, updates, lastReturn>>

focusVars == <<focusChangeInterval, lastActiveWindowId, probes, refreshTimers>>

envVars == <<activeWindow, horizon, lookups, pollTicks>>

scrollVars == <<lastMouseDown, scrollAccumulator, scrollDebounceTimer, flushes, wheels>>

recVars == <<recorderKind, procs, managed, stopAlls, stopAll, startReply, stopReply,
             saveOutcome>>

vars == <<regVars, ctlVars, cacheVars, focusVars, envVars, scrollVars, recVars>>

\* ---------------------------------------------------------------- bounds
MaxInputs        == 3    \* input events delivered in one behaviour of Spec
MaxSessions      == 2    \* sessions started in one behaviour of Spec
MaxStops         == 1    \* stopRecording calls suspended at the same time in Spec
MaxSessionInputs == 3    \* input events delivered in one behaviour of SpecSession
MaxSessionStops  == 2    \* stopRecording calls suspended at the same time in SpecSession
MaxApiInputs     == 2    \* input events delivered in one behaviour of SpecApi
MaxSecondCalls   == 1    \* repeated complete calls in one behaviour of SpecApi
MaxTime          == 1    \* last value of the clock in every specification but SpecBounds
MaxControlInputs == 2    \* input events delivered in one behaviour of SpecControl
MaxStartCalls    == 1    \* startRecording calls made during a recording in SpecControl
MaxBoundsTime    == 3    \* last value of the clock in SpecBounds
MaxBoundsSessions == 2   \* sessions started in one behaviour of SpecBounds
MaxLookups       == 2    \* bounds lookups issued by input handlers in SpecBounds
MaxPollTicks     == 1    \* ticks of the focus poller in SpecBounds

MaxWheels        == 3    \* wheel samples delivered in one behaviour of SpecScroll
MaxCaptureInputs == 2    \* input events delivered in one behaviour of SpecCapture
MaxMouseInputs   == 3    \* presses and releases delivered in one behaviour of SpecMouse
MaxLiveInputs    == 2    \* input events delivered in one behaviour of SpecLive
MaxPointerInputs == 2    \* presses and releases delivered in one behaviour of SpecPointer
MaxPointerWheels == 1    \* wheel samples delivered in one behaviour of SpecPointer

\* main.js:40  BOUNDS_CACHE_DURATION, in clock units of one second
BOUNDS_CACHE_DURATION == 2

\* ---------------------------------------------------------------- helpers
EmptyMap == [i \in {} |-> 0]

MapSet(m, k, v) == [i \in (DOMAIN m) \cup {k} |-> IF i = k THEN v ELSE m[i]]

MapDelete(m, k) == [i \in (DOMAIN m) \ {k} |-> m[i]]

\* main.js:681-686.  startTime = 0 stands for null (`!sessionData.startTime`).
getVideoTimestamp(sd, t) == IF sd.startTime = 0 THEN 0 ELSE t - sd.startTime

\* screen.getAllDisplays(): the displays a screenshot is taken of and a
\* recorder is spawned for.
Displays == {1, 2}

\* A screenshot file name: the task directory, the event id and the time
\* stamp that are part of the name (-1 and 0 when the name has none), and the
\* display (0 for the application window).
NoPath == [task |-> "", event |-> -1, stamp |-> 0, display |-> 0]

\* main.js:1527-1530  `eventId ? event_<eventId>_display_<id>.png
\*                           : screenshot_<Date.now()>_display_<id>.png`:
\* the test is on the truth value of eventId, and 0 is falsy.
screenshotPath(taskName, eventId, displayId, t) ==
  IF eventId # 0
  THEN [task |-> taskName, event |-> eventId, stamp |-> 0, display |-> displayId]
  ELSE [task |-> taskName, event |-> -1, stamp |-> t, display |-> displayId]

\* main.js:1108-1110  `eventId ? event_<eventId>_app_window.png
\*                           : browser_window_<Date.now()>.png`
appWindowScreenshotPath(taskName, eventId, t) ==
  screenshotPath(taskName, eventId, 0, t)

\* No `screenshots` field (main.js:877: the capture returned null).
\* `succeeded` is history: the displays whose capture succeeded.
NoScreenshots == [present |-> FALSE, displays |-> {}, appWindow |-> NoPath,
                  succeeded |-> {}]

\* main.js:1510-1621  what captureAllScreens returns, as completeEvent uses
\* it (screenPaths, appWindowPath).  The path of every display is put in
\* the list before its capture is tried (main.js:1531-1538) and a capture
\* that fails is logged (main.js:1569-1572); anything thrown outside the
\* per-display captures makes the whole call return null (main.js:1613-1620).
\* captured.failed are the displays whose capture fails, captured.appWindow
\* tells whether captureApplicationWindowScreenshot returns a path,
\* captured.at is the reading of Date.now().
captureAllScreens(taskName, eventId, captured) ==
  IF captured.thrown
  THEN NoScreenshots
  ELSE [present   |-> TRUE,
        displays  |-> {screenshotPath(taskName, eventId, d, captured.at) : d \in Displays},
        appWindow |-> IF captured.appWindow
                      THEN appWindowScreenshotPath(taskName, eventId, captured.at)
                      ELSE NoPath,
        succeeded |-> Displays \ captured.failed]

\* A point of the desktop.
Origin == [x |-> 0, y |-> 0]

\* The points at which the mouse is pressed and released: the second is
\* exactly 10 pixels from the other two, which are 20 pixels apart.
Points == {Origin, [x |-> 6, y |-> 8], [x |-> 12, y |-> 16]}

\* main.js:2241  the buttons the handlers look at: left (1) and right (2).
Buttons == {1, 2}

\* What a bounds lookup returns: null, or the bounds of the window
\* (main.js:800-807; 'applescript' is the only method the program produces).
NoRect == [present |-> FALSE, x |-> 0, y |-> 0, width |-> 0, height |-> 0,
           method |-> "none"]

WindowRect(x, y, width, height) ==
  [present |-> TRUE, x |-> x, y |-> y, width |-> width, height |-> height,
   method |-> "applescript"]

\* The results of the bounds lookups: null, or the bounds of a window that
\* holds the second and the third of the points and not the first.
Lookups == {NoRect, WindowRect(5, 5, 10, 12)}

\* main.js:967-970  `return null`
NoRel == [present |-> FALSE, x |-> 0, y |-> 0, isInsideApp |-> FALSE]

\* The desktop coordinates handed on as they are.
DesktopCoordinates(desktopX, desktopY, appBounds) ==
  IF ~appBounds.present
  THEN NoRel
  ELSE [present |-> TRUE, x |-> desktopX, y |-> desktopY,
        isInsideApp |-> /\ desktopX >= 0
                        /\ desktopY >= 0
                        /\ desktopX <= appBounds.width
                        /\ desktopY <= appBounds.height]

\* main.js:966-996
getApplicationRelativeCoordinates(desktopX, desktopY, appBounds) ==
  IF ~appBounds.present
  THEN NoRel
  ELSE LET relativeX == desktopX - appBounds.x
           relativeY == desktopY - appBounds.y
       IN [present |-> TRUE, x |-> relativeX, y |-> relativeY,
           isInsideApp |-> /\ relativeX >= 0
                           /\ relativeY >= 0
                           /\ relativeX <= appBounds.width
                           /\ relativeY <= appBounds.height]

\* No appRelative field.  For a click and a scroll the field is the result
\* of getApplicationRelativeCoordinates; for a drag it is { start, end }.
NoAppRelative == NoRel

\* main.js:2283-2291, 2476-2484  additionalData of a click and of a scroll
clickData(appRelative, appBounds) ==
  IF appRelative.present /\ appBounds.present /\ appBounds.method # "fallback"
  THEN appRelative
  ELSE NoAppRelative

\* main.js:2353-2364  additionalData of a drag
dragData(startBrowserRelative, endBrowserRelative, appBounds) ==
  IF /\ startBrowserRelative.present /\ endBrowserRelative.present
     /\ appBounds.present /\ appBounds.method # "fallback"
  THEN [present |-> TRUE, start |-> startBrowserRelative, end |-> endBrowserRelative]
  ELSE NoAppRelative

\* The additionalData of a repeated complete call that carries the field.
SomeAppRelative ==
  clickData(getApplicationRelativeCoordinates(0, 0, WindowRect(5, 5, 10, 12)),
            WindowRect(5, 5, 10, 12))

\* main.js:2094  `lastMouseDown = null`.  `arr` and `released` are history:
\* the place of the press in the order of the input events, and whether the
\* release that belongs to it has been delivered; a cleared record keeps the
\* press it held as history.
NoPress == [present |-> FALSE, pos |-> Origin, button |-> 0, arr |-> 0,
            released |-> FALSE]

\* main.js:2317, 2373  `lastMouseDown = null`
ForgetPress(press) == [press EXCEPT !.present = FALSE]

\* main.js:2322-2329  `Math.sqrt(dx^2 + dy^2) > 10`
IsDrag(from, to) ==
  (to.x - from.x) * (to.x - from.x) + (to.y - from.y) * (to.y - from.y) > 100

\* main.js:829  `const eventId = eventCounter++`
AllocEventId(counter) == [eventId |-> counter, eventCounter |-> counter + 1]

\* main.js:834-841  the pre-allocated slot.  `sess` and `dropped` are history
\* fields: the session in which createEventSlot ran, and whether the slot was
\* pending in the registry when stopRecording cleared it.
NewEventSlot(eventId, eventType, basicData, timestamp, sess) ==
  [id |-> eventId, type |-> eventType, timestamp |-> timestamp, pending |-> TRUE,
   payload |-> basicData, appRelative |-> NoAppRelative, screenshots |-> NoScreenshots,
   sess |-> sess, dropped |-> FALSE]

\* A completion that leaves the slot pending when the capture returned
\* nothing.
CompletedOnlyWithShots(eventSlot, completeData, shots) ==
  [eventSlot EXCEPT
     !.pending = ~shots.present,
     !.appRelative = IF completeData.present THEN completeData ELSE @,
     !.screenshots = IF shots.present THEN shots ELSE @]

\* main.js:870-883  `{...eventSlot, ...completeData, _pending: false}` plus
\* the screenshots field when the capture returned something.
CompletedEvent(eventSlot, completeData, shots) ==
  [eventSlot EXCEPT
     !.pending = FALSE,
     !.appRelative = IF completeData.present THEN completeData ELSE @,
     !.screenshots = IF shots.present THEN shots ELSE @]

\* main.js:906-907  `delete finalEvent._pending`
FinalEvent(e) ==
  [id |-> e.id, type |-> e.type, timestamp |-> e.timestamp, payload |-> e.payload,
   appRelative |-> e.appRelative, screenshots |-> e.screenshots, sess |-> e.sess,
   dropped |-> e.dropped]

\* A flush that steps over a pending slot instead of stopping at it.
RECURSIVE FlushSkipping(_, _, _, _)
FlushSkipping(slots, events, max, cursor) ==
  IF cursor \notin DOMAIN slots
  THEN [eventSlots |-> slots, events |-> events, maxCompletedEventId |-> max]
  ELSE IF slots[cursor].pending
       THEN FlushSkipping(slots, events, max, cursor + 1)
       ELSE FlushSkipping(MapDelete(slots, cursor),
                          Append(events, FinalEvent(slots[cursor])), cursor, cursor + 1)

finalizeSkipsPending(slots, events, max) == FlushSkipping(slots, events, max, max + 1)

\* main.js:893-919
RECURSIVE finalizeCompletedEvents(_, _, _)
finalizeCompletedEvents(slots, events, max) ==
  LET nextEventId == max + 1 IN
  IF nextEventId \in DOMAIN slots /\ ~slots[nextEventId].pending
  THEN finalizeCompletedEvents(MapDelete(slots, nextEventId),
                               Append(events, FinalEvent(slots[nextEventId])),
                               nextEventId)
  ELSE [eventSlots |-> slots, events |-> events, maxCompletedEventId |-> max]

\* ---------------------------------------------------------------- initial state
\* main.js:36  `cachedAppBounds = null`.  `sess` and `storedAt` are history
\* fields of a cache entry: the session during which its resolution started
\* and the moment the resolution stored it.
NoBounds == [window |-> "none", sess |-> 0, storedAt |-> 0]

\* What a lookup gave its caller: how it returned, the value, the cache
\* content at that moment, and the values given, in order, to the lookups
\* that met the resolution in flight.
NoReturn == [outcome |-> "none", value |-> NoBounds, cached |-> NoBounds,
             joined |-> << >>]

\* main.js:2099-2106.  `events` holds, for each sample pushed, its number in
\* the order of delivery (which also stands for its position) and its
\* rotation.  `burst` is history: the samples delivered since the debounce
\* timer last fired (their number, the sum of their rotations, the last one).
NoBurst == [n |-> 0, sum |-> 0, last |-> 0]

EmptyAccumulator ==
  [totalVertical |-> 0, lastX |-> 0, events |-> << >>, burst |-> NoBurst]

\* A display without recorder process (state "thrown": the spawn for it
\* threw, which is history).  The record of a display holds the
\* process (its state, how it reacts to stop requests, Node's `killed` flag,
\* the stop requests sent to it so far and those that reached it) and the
\* stop promise made for it (main.js:366-406, 496-530): its two timers,
\* whether it is resolved, and the frame extraction its exit handler awaits.
NoProcess ==
  [state |-> "none", mode |-> "obedient", killed |-> FALSE, signals |-> << >>,
   delivered |-> {}, timer1 |-> "none", timer2 |-> "none", resolved |-> FALSE,
   extraction |-> "none"]

\* main.js:12-39, 265-268, 928-929, 2094-2106
InitProgram ==
  /\ isRecording = FALSE
  /\ sessionData = [events |-> << >>, screenshots |-> 0, startTime |-> 0,
                    endTime |-> 0, sessionNo |-> 0]
  /\ eventCounter = 0
  /\ eventSlots = EmptyMap
  /\ maxCompletedEventId = -1
  /\ now = 1
  /\ listening = FALSE
  /\ startsPending = 0
  /\ stopsPending = 0
  /\ handlers = {}
  /\ completions = {}
  /\ arrivals = 0
  /\ session = 0
  /\ created = {}
  /\ secondCalls = 0
  /\ currentTaskName = ""
  /\ savesPending = 0
  /\ sessionFile = [content |-> [events |-> << >>, screenshots |-> 0, startTime |-> 0,
                                 endTime |-> 0, sessionNo |-> 0],
                     writes |-> 0]
  /\ startCalls = 0
  /\ cachedAppBounds = NoBounds
  /\ cachedAppWindow = "none"
  /\ lastBoundsUpdate = 0
  /\ boundsUpdateInProgress = FALSE
  /\ updates = << >>
  /\ lastReturn = NoReturn
  /\ focusChangeInterval = FALSE
  /\ lastActiveWindowId = "none"
  /\ probes = 0
  /\ refreshTimers = 0
  /\ lookups = 0
  /\ pollTicks = 0
  /\ lastMouseDown = NoPress
  /\ scrollAccumulator = EmptyAccumulator
  /\ scrollDebounceTimer = FALSE
  /\ flushes = {}
  /\ wheels = 0
  /\ procs = [d \in Displays |-> NoProcess]
  /\ managed = {}
  /\ stopAlls = 0
  /\ stopAll = "none"
  /\ startReply = "none"
  /\ stopReply = "none"
  /\ saveOutcome = "none"

\* The clock runs to MaxTime and one application window stays in front.
Init ==
  /\ InitProgram
  /\ horizon = MaxTime
  /\ activeWindow = "w1"
  /\ recorderKind = "native"

\* ---------------------------------------------------------------- the clock
\* Date.now() is read at main.js:831/685 (createEventSlot), 1860
\* (startRecording) and 1932 (stopRecording).  Time passes between callbacks:
\* a callback that reads the clock sees the last value read or a later one.
ClockReadings == now..horizon

\* ---------------------------------------------------------------- registry
\* main.js:828-852 followed by the synchronous head of completeEvent
\* (main.js:854-863): every handler calls `eventSlot.complete(...)` right
\* after createEventSlot, so the lookup at line 855 finds the slot just
\* stored and the call suspends on the 800 ms render delay.
createEventSlot(eventType, basicData, completeData, t) ==
  LET a    == AllocEventId(eventCounter)
      slot == NewEventSlot(a.eventId, eventType, basicData,
                           getVideoTimestamp(sessionData, t), session)
  IN /\ eventCounter' = a.eventCounter
     /\ now' = t
     /\ eventSlots' = MapSet(eventSlots, a.eventId, slot)
     /\ completions' = completions \cup
          {[eventId |-> a.eventId, eventSlot |-> slot, completeData |-> completeData,
            again |-> FALSE]}
     /\ created' = created \cup
          {[id |-> a.eventId, type |-> eventType, payload |-> basicData, at |-> t]}

\* main.js:2493-2495, 2508-2510  the accumulator is reset (lastX, lastY and
\* startTime are left as they are)
ResetAccumulator(acc) == [acc EXCEPT !.events = << >>, !.totalVertical = 0]

\* main.js:886  `eventSlots.set(eventId, completeEvent)`
StoreCompleted(slots, eventId, ev) == MapSet(slots, eventId, ev)

\* What a capture may do: fail as a whole, or return with any set of
\* displays failed, with or without an application-window screenshot, at any
\* reading of the clock.
Captures ==
  {[thrown |-> TRUE, failed |-> {}, appWindow |-> FALSE, at |-> now]}
  \cup [thrown : {FALSE}, failed : SUBSET Displays, appWindow : BOOLEAN,
        at : ClockReadings]

\* The captures of a run in which a capture fails as a whole or succeeds
\* for every display and the window, and the clock stands still meanwhile.
AllOrNothing ==
  {cap \in Captures : cap.at = now /\ (~cap.thrown => cap.failed = {} /\ cap.appWindow)}

\* main.js:865-890  completeEvent after the render delay: the capture
\* (captureAllScreens, main.js:1510-1621) either returns the paths, after
\* pushing a record to sessionData.screenshots (line 1602), or fails as a
\* whole and returns null (line 1619); its return and the rest of
\* completeEvent are consecutive continuations of the same promise chain,
\* and so is what captureScrollSequence does after
\* `await eventSlot.complete(...)` (main.js:2488-2495).
completeEvent(c, captures) ==
  /\ c \in completions
  /\ \E captured \in captures :
       LET shots == captureAllScreens(currentTaskName, c.eventId, captured)
           ev == CompletedEvent(c.eventSlot, c.completeData, shots)
           f  == finalizeCompletedEvents(StoreCompleted(eventSlots, c.eventId, ev),
                                         sessionData.events, maxCompletedEventId)
       IN /\ eventSlots' = f.eventSlots
          /\ sessionData' = [sessionData EXCEPT
                               !.events = f.events,
                               !.screenshots = IF shots.present THEN @ + 1 ELSE @]
          /\ maxCompletedEventId' = f.maxCompletedEventId
          /\ now' = captured.at
  /\ completions' = completions \ {c}
  /\ scrollAccumulator' = IF c.eventSlot.type = "scroll_sequence"
                          THEN ResetAccumulator(scrollAccumulator)
                          ELSE scrollAccumulator
  /\ lastMouseDown' = IF c.eventSlot.type = "drag"
                      THEN ForgetPress(lastMouseDown)
                      ELSE lastMouseDown
  /\ UNCHANGED <<isRecording, eventCounter, listening, startsPending,
                 stopsPending, handlers, arrivals, session, created, secondCalls>>
  /\ UNCHANGED <<ctlVars, cacheVars, focusVars, envVars>>
  /\ UNCHANGED <<scrollDebounceTimer, flushes, wheels, recVars>>

\* A completion in a run of all-or-nothing captures.
CompleteEventFinish(c) == completeEvent(c, AllOrNothing)

\* A completion with any capture.
CompleteEventCapture(c) == completeEvent(c, Captures)

\* ---------------------------------------------------------------- input handlers
\* main.js:2122-2226  keydown of an ordinary key while recording: the slot is
\* created before the first await.
Keydown(maxInputs) ==
  /\ listening
  /\ isRecording
  /\ arrivals < maxInputs
  /\ arrivals' = arrivals + 1
  /\ \E t \in ClockReadings :
       createEventSlot("type", [arr |-> arrivals + 1], NoAppRelative, t)
  /\ UNCHANGED <<isRecording, sessionData, maxCompletedEventId, listening,
                 startsPending, stopsPending, handlers, session, secondCalls>>
  /\ UNCHANGED <<ctlVars, cacheVars, focusVars, envVars>>
  /\ UNCHANGED <<scrollVars, recVars>>

\* main.js:2237-2265  mousedown of the left or right button while
\* recording (not on the overlay): the press is remembered and the handler
\* suspends on the window-bounds lookup before it creates the slot.
mousedown(maxInputs, points, buttons) ==
  /\ listening
  /\ isRecording
  /\ arrivals < maxInputs
  /\ arrivals' = arrivals + 1
  /\ \E pos \in points, button \in buttons :
       LET press == [present |-> TRUE, pos |-> pos, button |-> button,
                     arr |-> arrivals + 1, released |-> FALSE]
       IN /\ lastMouseDown' = press
          /\ handlers' = handlers \cup
               {[kind |-> "mousedown", arr |-> arrivals + 1, sess |-> session,
                 pos |-> pos, button |-> button]}
  /\ UNCHANGED <<isRecording, sessionData, eventCounter, eventSlots,
                 maxCompletedEventId, now, listening, startsPending, stopsPending,
                 completions, session, created, secondCalls>>
  /\ UNCHANGED <<ctlVars, cacheVars, focusVars, envVars>>
  /\ UNCHANGED <<scrollAccumulator, scrollDebounceTimer, flushes, wheels, recVars>>

\* A press of the left button at one point.
Mousedown(maxInputs) == mousedown(maxInputs, {Origin}, {1})

\* A press of either button at any of the points.
MousedownAnywhere(maxInputs) == mousedown(maxInputs, Points, Buttons)

\* main.js:2266-2295  the mousedown handler resumes with the lookup's result
\* (bounds or null); there is no isRecording check after the await.  `bounds`
\* in the slot is history: what the lookup returned.
MousedownResume(h) ==
  /\ h \in handlers
  /\ h.kind = "mousedown"
  /\ handlers' = handlers \ {h}
  /\ \E appBounds \in Lookups, t \in ClockReadings :
       LET appRelative == getApplicationRelativeCoordinates(h.pos.x, h.pos.y, appBounds)
       IN createEventSlot("click",
                          [arr |-> h.arr, x |-> h.pos.x, y |-> h.pos.y,
                           button |-> h.button, bounds |-> appBounds],
                          clickData(appRelative, appBounds), t)
  /\ UNCHANGED <<isRecording, sessionData, maxCompletedEventId, listening,
                 startsPending, stopsPending, arrivals, session, secondCalls>>
  /\ UNCHANGED <<ctlVars, cacheVars, focusVars, envVars>>
  /\ UNCHANGED <<scrollVars, recVars>>

\* main.js:2301-2331, 2373-2374  mouseup while recording (not on the
\* overlay): the handler returns when no press is remembered or the button
\* differs; a release more than 10 pixels from the press suspends on the
\* bounds lookup, any other clears the remembered press.  `press` in the
\* handler is history: the remembered press the release was paired with.
Mouseup(maxInputs) ==
  /\ listening
  /\ isRecording
  /\ arrivals < maxInputs
  /\ arrivals' = arrivals + 1
  /\ \E pos \in Points, button \in Buttons :
       LET press    == lastMouseDown
           released == [press EXCEPT !.released = @ \/ button = press.button]
       IN IF ~press.present \/ button # press.button
          THEN /\ lastMouseDown' = released
               /\ UNCHANGED handlers
          ELSE IF IsDrag(press.pos, pos)
          THEN /\ lastMouseDown' = released
               /\ handlers' = handlers \cup
                    {[kind |-> "mouseup", arr |-> arrivals + 1, sess |-> session,
                      pos |-> pos, button |-> button, press |-> press]}
          ELSE /\ lastMouseDown' = ForgetPress(released)
               /\ UNCHANGED handlers
  /\ UNCHANGED <<isRecording, sessionData, eventCounter, eventSlots,
                 maxCompletedEventId, now, listening, startsPending, stopsPending,
                 completions, session, created, secondCalls>>
  /\ UNCHANGED <<ctlVars, cacheVars, focusVars, envVars>>
  /\ UNCHANGED <<scrollAccumulator, scrollDebounceTimer, flushes, wheels, recVars>>

\* main.js:2333-2367  the mouseup handler resumes with the lookup's result:
\* it reads the remembered press as it is now (a TypeError ends the handler
\* when it has been cleared meanwhile) and creates the drag slot; the press
\* is cleared after `await eventSlot.complete(...)` (main.js:2373), which is
\* part of the completion step.
MouseupResume(h) ==
  /\ h \in handlers
  /\ h.kind = "mouseup"
  /\ handlers' = handlers \ {h}
  /\ IF ~lastMouseDown.present
     THEN UNCHANGED <<eventCounter, now, eventSlots, completions, created>>
     ELSE \E appBounds \in Lookups, t \in ClockReadings :
            LET startBrowserRelative ==
                  getApplicationRelativeCoordinates(lastMouseDown.pos.x,
                                                    lastMouseDown.pos.y, appBounds)
                endBrowserRelative ==
                  getApplicationRelativeCoordinates(h.pos.x, h.pos.y, appBounds)
            IN createEventSlot("drag",
                               [arr |-> h.arr,
                                startX |-> lastMouseDown.pos.x,
                                startY |-> lastMouseDown.pos.y,
                                endX |-> h.pos.x, endY |-> h.pos.y,
                                button |-> h.button,
                                bounds |-> appBounds, press |-> h.press],
                               dragData(startBrowserRelative, endBrowserRelative,
                                        appBounds), t)
  /\ UNCHANGED <<isRecording, sessionData, maxCompletedEventId, listening,
                 startsPending, stopsPending, arrivals, session, secondCalls>>
  /\ UNCHANGED <<ctlVars, cacheVars, focusVars, envVars>>
  /\ UNCHANGED <<scrollVars, recVars>>

\* ---------------------------------------------------------------- session control
\* A clear that forgets to reset the high-water mark.
clearKeepsHighWaterMark ==
  [eventSlots |-> EmptyMap, maxCompletedEventId |-> maxCompletedEventId]

\* main.js:921-925
clearEventSlots == [eventSlots |-> EmptyMap, maxCompletedEventId |-> -1]

\* The task name the renderer passes to startRecording (main.js:2545).
SessionTask == "taskA"

\* main.js:1847  `eventCounter = 0`
ResetEventCounter(counter) == 0

\* main.js:1845-1864  what startRecording does before its first await
\* (fs.mkdir) once it is past the guard
startRecordingReset(taskName) ==
  /\ currentTaskName' = taskName
  /\ isRecording' = TRUE
  /\ eventCounter' = ResetEventCounter(eventCounter)
  /\ eventSlots' = clearEventSlots.eventSlots
  /\ maxCompletedEventId' = clearEventSlots.maxCompletedEventId
  /\ \E t \in ClockReadings :
       /\ now' = t
       /\ sessionData' = [events |-> << >>, screenshots |-> 0, startTime |-> t,
                          endTime |-> 0, sessionNo |-> session + 1]
  /\ session' = session + 1
  /\ startsPending' = startsPending + 1
  /\ created' = {}
  /\ UNCHANGED <<listening, stopsPending, handlers, completions, arrivals, secondCalls>>
  /\ UNCHANGED <<savesPending, sessionFile, cacheVars, focusVars, envVars>>
  /\ UNCHANGED <<scrollVars, recVars>>

\* A startRecording without its guard.
StartGuardMissing(rec) == FALSE

\* main.js:1840  `if (isRecording) { ...; return; }`
AlreadyRecording(rec) == rec

\* main.js:1838-1864  a startRecording call made while no recording is active
StartRecording(maxSessions) ==
  /\ ~AlreadyRecording(isRecording)
  /\ session < maxSessions
  /\ startRecordingReset(SessionTask)
  /\ UNCHANGED startCalls

\* The task names a start request may carry (main.js:2543, 2156).
TaskNames == {"taskA", "taskB"}

\* main.js:1838-1843  a startRecording call made while a recording is active
\* (ipcMain.handle('start-recording'), main.js:2542-2552)
StartRecordingAgain(maxCalls) ==
  /\ isRecording
  /\ startCalls < maxCalls
  /\ startCalls' = startCalls + 1
  /\ \E taskName \in TaskNames :
       IF AlreadyRecording(isRecording)
       THEN UNCHANGED <<regVars, currentTaskName, savesPending, sessionFile,
                        cacheVars, focusVars, envVars, scrollVars, recVars>>
       ELSE startRecordingReset(taskName)

\* main.js:1866-1881  after the directories and the recorders:
\* startEventListeners (main.js:2108-2438).  The cache update that follows
\* (main.js:1885) is left out here, where the result of a bounds lookup is
\* any value (MousedownResume); StartListenersAndBounds has it.
StartEventListeners ==
  /\ startsPending > 0
  /\ startsPending' = startsPending - 1
  /\ listening' = TRUE
  /\ UNCHANGED <<isRecording, sessionData, eventCounter, eventSlots,
                 maxCompletedEventId, now, stopsPending, handlers, completions,
                 arrivals, session, created, secondCalls>>
  /\ UNCHANGED <<ctlVars, cacheVars, focusVars, envVars>>
  /\ UNCHANGED <<scrollVars, recVars>>

\* main.js:1915-1926  stopRecording up to `await captureFinalScreenshot()`
stopRecordingCall(maxStops) ==
  /\ isRecording
  /\ stopsPending < maxStops
  /\ stopsPending' = stopsPending + 1
  /\ UNCHANGED <<isRecording, sessionData, eventCounter, eventSlots,
                 maxCompletedEventId, now, listening, startsPending, handlers,
                 completions, arrivals, session, created, secondCalls>>
  /\ UNCHANGED <<ctlVars, cacheVars, focusVars, envVars>>
  /\ UNCHANGED <<scrollVars, recVars>>

\* main.js:2554-2564  ipcMain.handle('stop-recording')
IpcStopRecording(maxStops) == stopRecordingCall(maxStops)

\* main.js:2138-2150  F9 / Escape in the keydown handler
KeydownStop(maxStops) == listening /\ stopRecordingCall(maxStops)

\* main.js:1953-1959  the ids stopRecording warns about
PendingIds(slots) == {i \in DOMAIN slots : slots[i].pending}

\* A stopRecording that awaits the recorders and the write of the file.
StopOutcomeAwaiting(recordersStopping, savePending) ==
  IF recordersStopping \/ savePending THEN "waiting" ELSE "success"

\* main.js:1970-2014, 2557-2559  stopVideoRecording and the save only
\* schedule setImmediate callbacks and catch what they throw, so stopRecording
\* returns and the IPC handler answers { success: true }.
StopOutcome(recordersStopping, savePending) == "success"

\* A stop that resets the counter together with the registry.
StopResetsCounter(counter) == 0

\* main.js:1951-1963  stopRecording leaves eventCounter as it is
StopEventCounter(counter) == counter

\* main.js:1931-1998  stopRecording after the final screenshot, to its end:
\* it has no further await.  The calls whose slot is pending in the registry
\* at this point are marked dropped (history only: the code just counts them
\* for the warning).  stopFocusChangeDetection is main.js:957-963; the write of
\* the session file is left to a setImmediate callback (main.js:1986), the
\* stop of the recorders to another (stopVideoRecording, main.js:2046-2092);
\* stopEventListeners (main.js:2498-2539) clears the scroll timer and the
\* accumulator.
StopRecordingBody ==
  /\ stopsPending > 0
  /\ stopsPending' = stopsPending - 1
  /\ isRecording' = FALSE
  /\ \E t \in ClockReadings :
       /\ now' = t
       /\ sessionData' = [sessionData EXCEPT !.endTime = t]
  /\ listening' = FALSE
  /\ completions' =
       {IF c.eventId \in PendingIds(eventSlots) /\ eventSlots[c.eventId] = c.eventSlot
        THEN [c EXCEPT !.eventSlot.dropped = TRUE]
        ELSE c : c \in completions}
  /\ eventSlots' = clearEventSlots.eventSlots
  /\ maxCompletedEventId' = clearEventSlots.maxCompletedEventId
  /\ eventCounter' = StopEventCounter(eventCounter)
  /\ focusChangeInterval' = FALSE
  /\ lastActiveWindowId' = "none"
  /\ cachedAppBounds' = NoBounds
  /\ cachedAppWindow' = "none"
  /\ lastBoundsUpdate' = 0
  /\ savesPending' = savesPending + 1
  /\ scrollDebounceTimer' = FALSE
  /\ scrollAccumulator' = [ResetAccumulator(scrollAccumulator) EXCEPT !.burst = NoBurst]
  /\ stopAlls' = IF managed # {} THEN stopAlls + 1 ELSE stopAlls
  /\ stopReply' = StopOutcome(managed # {}, TRUE)
  /\ UNCHANGED <<lastMouseDown, flushes, wheels, recorderKind, procs, managed, stopAll,
                 startReply,
                 saveOutcome>>
  /\ UNCHANGED <<startsPending, handlers, arrivals, session, created, secondCalls>>
  /\ UNCHANGED <<currentTaskName, sessionFile, startCalls, boundsUpdateInProgress,
                 updates, lastReturn, probes, refreshTimers, envVars>>

\* main.js:1989  JSON.stringify(sessionData): the fields of the record
Serialize(sd) ==
  [events |-> sd.events, screenshots |-> sd.screenshots, startTime |-> sd.startTime,
   endTime |-> sd.endTime, sessionNo |-> sd.sessionNo]

\* main.js:1986-1998  the setImmediate callback of stopRecording: it
\* serializes the session record as it is now and writes the file; a failed
\* write is logged and leaves the file as it was.  `writes` counts the writes
\* of the same session's record (history).
SaveSessionData ==
  /\ savesPending > 0
  /\ savesPending' = savesPending - 1
  /\ \E written \in BOOLEAN :
       /\ sessionFile' =
         IF written
         THEN [content |-> Serialize(sessionData),
               writes  |-> IF sessionFile.content.sessionNo = sessionData.sessionNo
                           THEN sessionFile.writes + 1 ELSE 1]
         ELSE sessionFile
       /\ saveOutcome' = IF written THEN "written" ELSE "failed"
  /\ UNCHANGED <<regVars, currentTaskName, startCalls, cacheVars, focusVars, envVars>>
  /\ UNCHANGED <<scrollVars, recorderKind, procs, managed, stopAlls, stopAll,
                 startReply, stopReply>>

\* ---------------------------------------------------------------- bounds cache
Windows == {"w1", "w2"}

\* main.js:156, 200  `cachedAppBounds && (now - lastBoundsUpdate) < BOUNDS_CACHE_DURATION`
Fresh(bounds, last, t) == bounds # NoBounds /\ (t - last) < BOUNDS_CACHE_DURATION

\* An updateCachedAppBounds that starts a resolution whatever the flag says.
UpdateGuardMissing(inProgress) == FALSE

\* main.js:150  `if (boundsUpdateInProgress)`
UpdateGuard(inProgress) == inProgress

\* The value a lookup returns, as lastReturn records it.
Returned(outcome, value, joined) ==
  [outcome |-> outcome, value |-> value, cached |-> cachedAppBounds, joined |-> joined]

\* main.js:149-165  updateCachedAppBounds up to its first await.  A call that
\* finds a resolution in flight returns the cache content at once (it is
\* noted in `joined` of the resolution it met); a call that finds a fresh
\* entry returns it; any other call sets the flag and starts a resolution.
updateCachedAppBounds(caller, t) ==
  IF UpdateGuard(boundsUpdateInProgress)
  THEN /\ lastReturn' = Returned("inProgress", cachedAppBounds, << >>)
       /\ updates' = [i \in DOMAIN updates |->
                        [updates[i] EXCEPT !.joined = Append(@, cachedAppBounds)]]
       /\ UNCHANGED boundsUpdateInProgress
  ELSE IF Fresh(cachedAppBounds, lastBoundsUpdate, t)
  THEN /\ lastReturn' = Returned("fresh", cachedAppBounds, << >>)
       /\ UNCHANGED <<updates, boundsUpdateInProgress>>
  ELSE /\ boundsUpdateInProgress' = TRUE
       /\ updates' = Append(updates,
            [stage |-> "window", now |-> t, appWindow |-> "none", caller |-> caller,
             sess |-> session, joined |-> << >>])
       /\ UNCHANGED lastReturn

\* Whether the updateCachedAppBounds call made at this point returns to its
\* caller without suspending on a resolution.
ReturnsAtOnce(t) ==
  UpdateGuard(boundsUpdateInProgress) \/ Fresh(cachedAppBounds, lastBoundsUpdate, t)

\* main.js:197-206 (through getApplicationWindowBounds, main.js:823-825)
getCachedAppBounds(caller, t) ==
  IF Fresh(cachedAppBounds, lastBoundsUpdate, t)
  THEN /\ lastReturn' = Returned("fresh", cachedAppBounds, << >>)
       /\ UNCHANGED <<updates, boundsUpdateInProgress>>
  ELSE updateCachedAppBounds(caller, t)

\* main.js:2265, 2333, 2458  an input handler (mousedown, mouseup of a drag,
\* the scroll flush) asks for the window bounds.
HandlerLookup(maxLookups) ==
  /\ listening
  /\ isRecording
  /\ lookups < maxLookups
  /\ lookups' = lookups + 1
  /\ \E t \in ClockReadings :
       /\ now' = t
       /\ getCachedAppBounds("handler", t)
  /\ UNCHANGED <<isRecording, sessionData, eventCounter, eventSlots,
                 maxCompletedEventId, listening, startsPending, stopsPending,
                 handlers, completions, arrivals, session, created, secondCalls>>
  /\ UNCHANGED <<ctlVars, cachedAppBounds, cachedAppWindow, lastBoundsUpdate,
                 focusVars, activeWindow, horizon, pollTicks>>
  /\ UNCHANGED <<scrollVars, recVars>>

RemoveAt(seq, i) == [j \in 1..(Len(seq) - 1) |-> IF j < i THEN seq[j] ELSE seq[j + 1]]

\* main.js:1889 (startFocusChangeDetection, main.js:931-955): startRecording
\* goes on to it when its `await updateCachedAppBounds()` returns.
AfterUpdate(caller) == IF caller = "start" THEN TRUE ELSE focusChangeInterval

\* main.js:165-177  the resolution resumes with the result of
\* getActiveApplicationWindow (main.js:1000-1093): the frontmost window, or
\* null when none is found or the query failed.
UpdateWindowResolved(i) ==
  /\ i \in DOMAIN updates
  /\ updates[i].stage = "window"
  /\ \E appWindow \in {activeWindow, "none"} :
       LET u == updates[i] IN
       IF appWindow = "none"
       THEN /\ boundsUpdateInProgress' = FALSE
            /\ updates' = RemoveAt(updates, i)
            /\ lastReturn' = Returned("noWindow", NoBounds, u.joined)
            /\ focusChangeInterval' = AfterUpdate(u.caller)
       ELSE IF /\ cachedAppWindow # "none"
               /\ cachedAppWindow = appWindow
               /\ (u.now - lastBoundsUpdate) < BOUNDS_CACHE_DURATION
       THEN /\ boundsUpdateInProgress' = FALSE
            /\ updates' = RemoveAt(updates, i)
            /\ lastReturn' = Returned("sameWindow", cachedAppBounds, u.joined)
            /\ focusChangeInterval' = AfterUpdate(u.caller)
       ELSE /\ updates' = [updates EXCEPT ![i].stage = "bounds",
                                          ![i].appWindow = appWindow]
            /\ UNCHANGED <<boundsUpdateInProgress, lastReturn, focusChangeInterval>>
  /\ UNCHANGED <<regVars, ctlVars, cachedAppBounds, cachedAppWindow, lastBoundsUpdate,
                 lastActiveWindowId, probes, refreshTimers, envVars>>
  /\ UNCHANGED <<scrollVars, recVars>>

\* A failed bounds query that wipes the cache.
FailureClearsCache(entry) == [bounds |-> NoBounds, window |-> "none", last |-> 0]

\* main.js:181, 188-193  a bounds query that returned nothing, or an
\* exception: the cache is not assigned.
FailureKeepsCache(entry) ==
  [bounds |-> entry.bounds, window |-> entry.window, last |-> entry.last]

\* main.js:180-194  the resolution resumes with the result of
\* getApplicationWindowBoundsRaw (main.js:712-820): the bounds of the
\* frontmost process, null, or (catch branch) an exception.  The entry is
\* stamped with the `now` read at main.js:155, before the two awaits.
UpdateBoundsResolved(i) ==
  /\ i \in DOMAIN updates
  /\ updates[i].stage = "bounds"
  /\ boundsUpdateInProgress' = FALSE
  /\ updates' = RemoveAt(updates, i)
  /\ focusChangeInterval' = AfterUpdate(updates[i].caller)
  /\ \E result \in {"bounds", "null", "throw"}, t \in ClockReadings :
       LET u     == updates[i]
           old   == [bounds |-> cachedAppBounds, window |-> cachedAppWindow,
                     last |-> lastBoundsUpdate]
           kept  == FailureKeepsCache(old)
           entry == [window |-> activeWindow, sess |-> u.sess, storedAt |-> t]
       IN /\ now' = t
          /\ IF result = "bounds"
             THEN /\ activeWindow # "none"
                  /\ cachedAppBounds' = entry
                  /\ cachedAppWindow' = u.appWindow
                  /\ lastBoundsUpdate' = u.now
                  /\ lastReturn' = Returned("stored", entry, u.joined)
             ELSE /\ cachedAppBounds' = kept.bounds
                  /\ cachedAppWindow' = kept.window
                  /\ lastBoundsUpdate' = kept.last
                  /\ lastReturn' = IF result = "null"
                                   THEN Returned("noBounds", NoBounds, u.joined)
                                   ELSE Returned("error", cachedAppBounds, u.joined)
  /\ UNCHANGED <<isRecording, sessionData, eventCounter, eventSlots,
                 maxCompletedEventId, listening, startsPending, stopsPending,
                 handlers, completions, arrivals, session, created, secondCalls>>
  /\ UNCHANGED <<ctlVars, lastActiveWindowId, probes, refreshTimers, envVars>>
  /\ UNCHANGED <<scrollVars, recVars>>

\* main.js:1866-1889  startRecording after the directories and the
\* recorders: startEventListeners, then updateCachedAppBounds up to its first
\* await, then (when that call returns at once) startFocusChangeDetection.
StartListenersAndBounds ==
  /\ startsPending > 0
  /\ startsPending' = startsPending - 1
  /\ listening' = TRUE
  /\ \E t \in ClockReadings :
       /\ now' = t
       /\ updateCachedAppBounds("start", t)
       /\ focusChangeInterval' = IF ReturnsAtOnce(t) THEN TRUE ELSE focusChangeInterval
  /\ UNCHANGED <<isRecording, sessionData, eventCounter, eventSlots,
                 maxCompletedEventId, stopsPending, handlers, completions,
                 arrivals, session, created, secondCalls>>
  /\ UNCHANGED <<ctlVars, cachedAppBounds, cachedAppWindow, lastBoundsUpdate,
                 lastActiveWindowId, probes, refreshTimers, envVars>>
  /\ UNCHANGED <<scrollVars, recVars>>

\* ---------------------------------------------------------------- focus poller
\* main.js:937-941  a tick of the 500 ms interval while recording: it
\* suspends on getActiveApplicationWindow.
PollTick(maxTicks) ==
  /\ focusChangeInterval
  /\ isRecording
  /\ pollTicks < maxTicks
  /\ pollTicks' = pollTicks + 1
  /\ probes' = probes + 1
  /\ UNCHANGED <<regVars, ctlVars, cacheVars, focusChangeInterval, lastActiveWindowId,
                 refreshTimers, activeWindow, horizon, lookups>>
  /\ UNCHANGED <<scrollVars, recVars>>

\* main.js:942-950  the tick resumes: a window other than the last one seen
\* is remembered and a refresh is scheduled after BOUNDS_UPDATE_DEBOUNCE.
PollResume ==
  /\ probes > 0
  /\ probes' = probes - 1
  /\ \E currentWindow \in {activeWindow, "none"} :
       IF currentWindow # "none" /\ currentWindow # lastActiveWindowId
       THEN /\ lastActiveWindowId' = currentWindow
            /\ refreshTimers' = refreshTimers + 1
       ELSE UNCHANGED <<lastActiveWindowId, refreshTimers>>
  /\ UNCHANGED <<regVars, ctlVars, cacheVars, focusChangeInterval, envVars>>
  /\ UNCHANGED <<scrollVars, recVars>>

\* main.js:947-949  the debounce timer fires: updateCachedAppBounds up to its
\* first await.
RefreshTimerFires ==
  /\ refreshTimers > 0
  /\ refreshTimers' = refreshTimers - 1
  /\ \E t \in ClockReadings :
       /\ now' = t
       /\ updateCachedAppBounds("poller", t)
  /\ UNCHANGED <<isRecording, sessionData, eventCounter, eventSlots,
                 maxCompletedEventId, listening, startsPending, stopsPending,
                 handlers, completions, arrivals, session, created, secondCalls>>
  /\ UNCHANGED <<ctlVars, cachedAppBounds, cachedAppWindow, lastBoundsUpdate,
                 focusChangeInterval, lastActiveWindowId, probes, envVars>>
  /\ UNCHANGED <<scrollVars, recVars>>

\* The user brings another application window to the front, or none is left.
FocusChange ==
  /\ \E w \in (Windows \cup {"none"}) \ {activeWindow} : activeWindow' = w
  /\ UNCHANGED <<regVars, ctlVars, cacheVars, focusVars, horizon, lookups, pollTicks>>
  /\ UNCHANGED <<scrollVars, recVars>>

\* ---------------------------------------------------------------- scroll aggregation
\* e.rotation of a wheel sample (uIOhook reports whole notches).
Rotations == {-1, 1}

Abs(x) == IF x < 0 THEN -x ELSE x

\* main.js:2451  `amount < 0.5`
BelowThreshold(amount) == 2 * amount < 1

\* main.js:2445
Direction(totalRotation) == IF totalRotation > 0 THEN "up" ELSE "down"

\* main.js:2466  `Math.round(amount * 10) / 10`
RoundToTenth(amount) == (amount * 10) \div 10

\* main.js:2378-2422  a wheel sample while recording: the totals restart
\* when the accumulator holds no sample, the sample is added, and the
\* debounce timer is set anew.
Wheel(maxWheels) ==
  /\ listening
  /\ isRecording
  /\ wheels < maxWheels
  /\ wheels' = wheels + 1
  /\ \E rotation \in Rotations :
       LET acc  == scrollAccumulator
           base == IF Len(acc.events) = 0 THEN [acc EXCEPT !.totalVertical = 0] ELSE acc
       IN scrollAccumulator' =
            [base EXCEPT !.totalVertical = @ + rotation,
                         !.lastX = wheels + 1,
                         !.events = Append(@, [id |-> wheels + 1, rotation |-> rotation]),
                         !.burst = [n |-> @.n + 1, sum |-> @.sum + rotation,
                                    last |-> wheels + 1]]
  /\ scrollDebounceTimer' = TRUE
  /\ UNCHANGED <<regVars, ctlVars, cacheVars, focusVars, envVars, lastMouseDown,
                 flushes, recVars>>

\* A discard that leaves the samples in the accumulator.
DiscardKeepsSamples(acc) == acc

\* main.js:2453  `scrollAccumulator.events = []`
DiscardScroll(acc) == [acc EXCEPT !.events = << >>]

\* main.js:2419-2421, 2441-2458  300 ms without a sample: captureScrollSequence
\* up to its await.  It returns when the accumulator holds no sample, discards
\* a total below the threshold, and otherwise keeps direction and amount and
\* suspends on the bounds lookup.  `burst` and `samples` (the samples in the
\* accumulator at this moment) are history.
ScrollTimerFires ==
  /\ scrollDebounceTimer
  /\ scrollDebounceTimer' = FALSE
  /\ LET acc    == scrollAccumulator
         amount == Abs(acc.totalVertical)
         ended  == [acc EXCEPT !.burst = NoBurst]
     IN IF Len(acc.events) = 0
        THEN /\ scrollAccumulator' = ended
             /\ UNCHANGED flushes
        ELSE IF BelowThreshold(amount)
        THEN /\ scrollAccumulator' = DiscardScroll(ended)
             /\ UNCHANGED flushes
        ELSE /\ scrollAccumulator' = ended
             /\ flushes' = flushes \cup
                  {[direction |-> Direction(acc.totalVertical), amount |-> amount,
                    burst |-> acc.burst,
                    samples |-> {acc.events[i].id : i \in 1..Len(acc.events)}]}
  /\ UNCHANGED <<regVars, ctlVars, cacheVars, focusVars, envVars, lastMouseDown,
                 wheels, recVars>>

\* main.js:2459-2488  captureScrollSequence resumes with the bounds: the slot
\* takes direction and amount from before the await, position and number of
\* samples from the accumulator as it is now; there is no isRecording check.
\* The pointer of the model moves along the x axis: lastY is 0.
ScrollFlushResume(f) ==
  /\ f \in flushes
  /\ flushes' = flushes \ {f}
  /\ \E appBounds \in Lookups, t \in ClockReadings :
       LET appRelative ==
             getApplicationRelativeCoordinates(scrollAccumulator.lastX, 0, appBounds)
       IN createEventSlot("scroll_sequence",
                          [x |-> scrollAccumulator.lastX,
                           y |-> 0,
                           direction |-> f.direction,
                           totalAmount |-> RoundToTenth(f.amount),
                           individualScrolls |-> Len(scrollAccumulator.events),
                           burst |-> f.burst,
                           samples |-> f.samples,
                           bounds |-> appBounds],
                          clickData(appRelative, appBounds), t)
  /\ UNCHANGED <<isRecording, sessionData, maxCompletedEventId, listening,
                 startsPending, stopsPending, handlers, arrivals, session, secondCalls>>
  /\ UNCHANGED <<ctlVars, cacheVars, focusVars, envVars>>
  /\ UNCHANGED <<lastMouseDown, scrollAccumulator, scrollDebounceTimer, wheels,
                 recVars>>

\* ---------------------------------------------------------------- recorder processes
\* How a recorder process reacts to stop requests: it exits on any of them,
\* only on SIGTERM and SIGKILL, or only on SIGKILL.
Modes == {"obedient", "ignoresGraceful", "ignoresTerm"}

Honours(mode, request) ==
  \/ mode = "obedient"
  \/ mode = "ignoresGraceful" /\ request \in {"SIGTERM", "SIGKILL"}
  \/ request = "SIGKILL"

\* What spawn() may do for one display: start the process, start nothing and
\* emit 'error' on the next tick (ENOENT, EACCES, ...), or throw.
SpawnOutcomes == {"running", "failed", "thrown"}

\* The displays reached by the loop of main.js:434-481 / 283-352: those
\* before the first spawn that throws.
Reached(outcome) ==
  {d \in Displays : \A e \in Displays : e < d => outcome[e] # "thrown"}

\* main.js:465-478, 335-348  the 'error' handler set at spawn only logs, and
\* the process is pushed to the list all the same: every display whose spawn
\* returned is managed.
Managed(outcome) == {d \in Reached(outcome) : outcome[d] # "thrown"}

\* main.js:484-487, 355-358, 2039-2042  a throw leaves the loop and is
\* rethrown up to startRecording and its caller.
SpawnThrows(outcome) == \E d \in Displays : outcome[d] = "thrown"

\* main.js:1875-1881, 2016-2044, 422-489, 270-359  startRecording from
\* `await startVideoRecording()` to `await updateCachedAppBounds()`: the
\* recorders are spawned one display after the other; when a spawn throws,
\* startRecording ends there and ipcMain.handle('start-recording') answers
\* { success: false } (main.js:2548-2551); otherwise startEventListeners runs.
StartRecordersAndListeners ==
  /\ startsPending > 0
  /\ startsPending' = startsPending - 1
  /\ \E outcome \in [Displays -> SpawnOutcomes], mode \in [Displays -> Modes] :
       /\ procs' = [d \in Displays |->
                      IF d \in Managed(outcome)
                      THEN [NoProcess EXCEPT !.state = outcome[d], !.mode = mode[d]]
                      ELSE IF d \in Reached(outcome)
                      THEN [NoProcess EXCEPT !.state = "thrown"]
                      ELSE NoProcess]
       /\ managed' = Managed(outcome)
       /\ listening' = IF SpawnThrows(outcome) THEN listening ELSE TRUE
       /\ startReply' = IF SpawnThrows(outcome) THEN "error" ELSE "pending"
  /\ UNCHANGED <<isRecording, sessionData, eventCounter, eventSlots,
                 maxCompletedEventId, now, stopsPending, handlers, completions,
                 arrivals, session, created, secondCalls>>
  /\ UNCHANGED <<ctlVars, cacheVars, focusVars, envVars, scrollVars>>
  /\ UNCHANGED <<recorderKind, stopAlls, stopAll, stopReply, saveOutcome>>

\* main.js:1885-1913, 2546-2547  startRecording runs to its end and the IPC
\* handler answers { success: true }.
StartRecordingReturns ==
  /\ startReply = "pending"
  /\ startReply' = "success"
  /\ UNCHANGED <<regVars, ctlVars, cacheVars, focusVars, envVars, scrollVars>>
  /\ UNCHANGED <<recorderKind, procs, managed, stopAlls, stopAll, stopReply, saveOutcome>>

\* subprocess.kill(signal) and stdin.write('q\n') on a process whose stop
\* handlers are set (main.js:515-526, 385-395).  A request that reaches a
\* running process sets `killed` when it is a signal; kill() on a process
\* that is gone does nothing; a kill() that fails otherwise emits 'error',
\* whose handler clears the first timer and resolves the stop promise.
Request(p, request, reaches) ==
  LET sent == [p EXCEPT !.signals = Append(@, request)]
  IN IF p.state # "running" THEN sent
     ELSE IF reaches
     THEN [sent EXCEPT !.delivered = @ \cup {request},
                       !.killed = IF request = "q" THEN @ ELSE TRUE]
     ELSE IF request = "q" THEN sent
     ELSE [sent EXCEPT !.timer1 = IF @ = "armed" THEN "cleared" ELSE @,
                       !.resolved = TRUE]

\* main.js:529 `kill('SIGINT')`; main.js:398-404 `stdin.write('q\n')`, and
\* SIGINT when the write throws.
GracefulRequests(kind) == IF kind = "native" THEN {"SIGINT"} ELSE {"q", "SIGINT"}

\* main.js:2052-2069, 491-531, 361-406  the setImmediate callback of
\* stopVideoRecording: stopNativeScreenRecording / stopDirectFFmpegRecording
\* up to `await Promise.all(stopPromises)`.  For every process of the list, in
\* one go: the first timer is armed, the exit and error handlers are set and
\* the graceful request is sent.
StopAllBegins ==
  /\ stopAlls > 0
  /\ stopAlls' = stopAlls - 1
  /\ stopAll' = "waiting"
  /\ \E request \in [Displays -> GracefulRequests(recorderKind)],
        reaches \in [Displays -> BOOLEAN] :
       procs' = [d \in Displays |->
                   IF d \in managed
                   THEN Request([procs[d] EXCEPT !.timer1 = "armed"],
                                request[d], reaches[d])
                   ELSE procs[d]]
  /\ UNCHANGED <<regVars, ctlVars, cacheVars, focusVars, envVars, scrollVars>>
  /\ UNCHANGED <<recorderKind, managed, startReply, stopReply, saveOutcome>>

\* main.js:515-520  the native exit handler awaits the frame extraction
\* before it resolves; main.js:385-389  the FFmpeg one resolves at once.
ExitHandler(p, kind) ==
  LET cleared == [p EXCEPT !.timer1 = IF @ = "armed" THEN "cleared" ELSE @]
  IN IF kind = "native"
     THEN [cleared EXCEPT !.extraction = "running"]
     ELSE [cleared EXCEPT !.resolved = TRUE]

\* A running process exits once a request it honours has reached it; the
\* 'exit' handler of the stop runs.
ProcessExit(d) ==
  /\ procs[d].state = "running"
  /\ \E request \in procs[d].delivered : Honours(procs[d].mode, request)
  /\ procs' = [procs EXCEPT ![d] = ExitHandler([@ EXCEPT !.state = "exited"], recorderKind)]
  /\ UNCHANGED <<regVars, ctlVars, cacheVars, focusVars, envVars, scrollVars>>
  /\ UNCHANGED <<recorderKind, managed, stopAlls, stopAll, startReply, stopReply,
                 saveOutcome>>

\* main.js:502-513, 372-383  the first timer (5 s / 10 s) fires: SIGTERM, and
\* the second timer (3 s) is armed.
Timer1Fires(d) ==
  /\ procs[d].timer1 = "armed"
  /\ \E reaches \in BOOLEAN :
       procs' = [procs EXCEPT ![d] =
                   [Request([@ EXCEPT !.timer1 = "fired"], "SIGTERM", reaches)
                      EXCEPT !.timer2 = "armed"]]
  /\ UNCHANGED <<regVars, ctlVars, cacheVars, focusVars, envVars, scrollVars>>
  /\ UNCHANGED <<recorderKind, managed, stopAlls, stopAll, startReply, stopReply,
                 saveOutcome>>

\* main.js:508, 378  `if (!recordingProcess.killed)`
NotYetKilled(killed) == ~killed

\* main.js:507-512, 377-382  the second timer fires; nothing clears it.
Timer2Fires(d) ==
  /\ procs[d].timer2 = "armed"
  /\ \E reaches \in BOOLEAN :
       procs' = [procs EXCEPT ![d] =
                   IF NotYetKilled(@.killed)
                   THEN Request([@ EXCEPT !.timer2 = "fired"], "SIGKILL", reaches)
                   ELSE [@ EXCEPT !.timer2 = "fired"]]
  /\ UNCHANGED <<regVars, ctlVars, cacheVars, focusVars, envVars, scrollVars>>
  /\ UNCHANGED <<recorderKind, managed, stopAlls, stopAll, startReply, stopReply,
                 saveOutcome>>

\* main.js:518-519, 546-568  handleRecordingExitAndExtract returns (it
\* catches what the extraction throws) and the exit handler resolves.
ExtractionFinishes(d) ==
  /\ procs[d].extraction = "running"
  /\ procs' = [procs EXCEPT ![d] = [@ EXCEPT !.extraction = "done", !.resolved = TRUE]]
  /\ UNCHANGED <<regVars, ctlVars, cacheVars, focusVars, envVars, scrollVars>>
  /\ UNCHANGED <<recorderKind, managed, stopAlls, stopAll, startReply, stopReply,
                 saveOutcome>>

\* main.js:534-539, 409-414  Promise.all is fulfilled: the list is cleared.
StopAllReturns ==
  /\ stopAll = "waiting"
  /\ \A d \in managed : procs[d].resolved
  /\ stopAll' = "returned"
  /\ managed' = {}
  /\ UNCHANGED <<regVars, ctlVars, cacheVars, focusVars, envVars, scrollVars>>
  /\ UNCHANGED <<recorderKind, procs, stopAlls, startReply, stopReply, saveOutcome>>

\* ---------------------------------------------------------------- use of the handle
\* main.js:850, 854-863  `complete` of a slot handle called again after the
\* first call on that handle has finished.  No handler of main.js does this;
\* the step shows what completeEvent does with such a call: when the slot is
\* still in the map the call goes on to the render delay and the capture,
\* when it is not (flushed, or cleared) it logs an error and returns.
SecondComplete(maxCalls) ==
  /\ secondCalls < maxCalls
  /\ secondCalls' = secondCalls + 1
  /\ \E r \in created, completeData \in {NoAppRelative, SomeAppRelative} :
       /\ ~\E c \in completions : c.eventId = r.id /\ c.eventSlot.payload = r.payload
       /\ completions' =
            IF r.id \in DOMAIN eventSlots
            THEN completions \cup
                   {[eventId |-> r.id, eventSlot |-> eventSlots[r.id],
                     completeData |-> completeData, again |-> TRUE]}
            ELSE completions
  /\ UNCHANGED <<isRecording, sessionData, eventCounter, eventSlots,
                 maxCompletedEventId, now, listening, startsPending, stopsPending,
                 handlers, arrivals, session, created>>
  /\ UNCHANGED <<ctlVars, cacheVars, focusVars, envVars>>
  /\ UNCHANGED <<scrollVars, recVars>>

\* ---------------------------------------------------------------- specification
\* The steps that do not depend on a bound of the exploration.
Step ==
  \/ \E h \in handlers : MousedownResume(h)
  \/ \E c \in completions : CompleteEventFinish(c)
  \/ StartEventListeners
  \/ StopRecordingBody

\* Up to MaxSessions sessions, one after the other, with MaxInputs input events.
Next ==
  \/ Keydown(MaxInputs)
  \/ Mousedown(MaxInputs)
  \/ StartRecording(MaxSessions)
  \/ IpcStopRecording(MaxStops)
  \/ KeydownStop(MaxStops)
  \/ Step

Spec == Init /\ [][Next]_vars

\* The program from construction to the end of its first session, stopped or
\* not, with MaxSessionInputs input events.
NextSession ==
  \/ Keydown(MaxSessionInputs)
  \/ Mousedown(MaxSessionInputs)
  \/ StartRecording(1)
  \/ IpcStopRecording(MaxSessionStops)
  \/ KeydownStop(MaxSessionStops)
  \/ Step

SpecSession == Init /\ [][NextSession]_vars

\* One session in which the `complete` handles may also be called again.
NextApi ==
  \/ Keydown(MaxApiInputs)
  \/ Mousedown(MaxApiInputs)
  \/ StartRecording(1)
  \/ IpcStopRecording(MaxStops)
  \/ KeydownStop(MaxStops)
  \/ SecondComplete(MaxSecondCalls)
  \/ Step

SpecApi == Init /\ [][NextApi]_vars

\* One session with the session file followed to its write, and with start
\* requests arriving while the recording is active.
NextControl ==
  \/ Keydown(MaxControlInputs)
  \/ Mousedown(MaxControlInputs)
  \/ StartRecording(1)
  \/ StartRecordingAgain(MaxStartCalls)
  \/ IpcStopRecording(MaxSessionStops)
  \/ KeydownStop(MaxSessionStops)
  \/ SaveSessionData
  \/ Step

SpecControl == Init /\ [][NextControl]_vars

\* One session of key presses whose captures fail or succeed display by
\* display.
NextCapture ==
  \/ StartRecording(1)
  \/ StartEventListeners
  \/ Keydown(MaxCaptureInputs)
  \/ \E c \in completions : CompleteEventCapture(c)
  \/ IpcStopRecording(MaxStops)
  \/ KeydownStop(MaxStops)
  \/ StopRecordingBody

SpecCapture == Init /\ [][NextCapture]_vars

\* One session with wheel samples only: the scroll aggregation and the
\* slots it creates.
NextScroll ==
  \/ StartRecording(1)
  \/ StartEventListeners
  \/ Wheel(MaxWheels)
  \/ ScrollTimerFires
  \/ \E f \in flushes : ScrollFlushResume(f)
  \/ \E c \in completions : CompleteEventFinish(c)
  \/ IpcStopRecording(MaxStops)
  \/ KeydownStop(MaxStops)
  \/ StopRecordingBody

SpecScroll == Init /\ [][NextScroll]_vars

\* One session, never stopped, of presses and releases of the mouse
\* buttons at the points of the desktop.
NextMouse ==
  \/ StartRecording(1)
  \/ StartEventListeners
  \/ MousedownAnywhere(MaxMouseInputs)
  \/ Mouseup(MaxMouseInputs)
  \/ \E h \in handlers : MousedownResume(h)
  \/ \E h \in handlers : MouseupResume(h)
  \/ \E c \in completions : CompleteEventFinish(c)

SpecMouse == Init /\ [][NextMouse]_vars

\* The sessions of Spec with MaxLiveInputs input events, in which every
\* capture returns: the 800 ms delay of completeEvent ends and
\* captureAllScreens returns paths or null (main.js:863-867, 1613-1620), so a
\* completion that has begun is finished.
NextLive ==
  \/ Keydown(MaxLiveInputs)
  \/ Mousedown(MaxLiveInputs)
  \/ StartRecording(MaxSessions)
  \/ IpcStopRecording(MaxStops)
  \/ Step

LiveFairness == WF_vars(\E c \in completions : CompleteEventFinish(c))

SpecLive == Init /\ [][NextLive]_vars /\ LiveFairness

\* One session, never stopped, with every kind of pointer event: a press and
\* a release of a mouse button at the points of the desktop, and a wheel
\* sample.
NextPointer ==
  \/ StartRecording(1)
  \/ StartEventListeners
  \/ MousedownAnywhere(MaxPointerInputs)
  \/ Mouseup(MaxPointerInputs)
  \/ \E h \in handlers : MousedownResume(h)
  \/ \E h \in handlers : MouseupResume(h)
  \/ Wheel(MaxPointerWheels)
  \/ ScrollTimerFires
  \/ \E f \in flushes : ScrollFlushResume(f)
  \/ \E c \in completions : CompleteEventFinish(c)

SpecPointer == Init /\ [][NextPointer]_vars

\* main.js:2018, 2024  either kind of recorder: the native one (darwin) or
\* FFmpeg.
InitRecorders ==
  /\ InitProgram
  /\ horizon = MaxTime
  /\ activeWindow = "w1"
  /\ recorderKind \in {"native", "ffmpeg"}

\* One session with its recorder processes, from their start to the end of
\* the stop and of the save.
NextRecorders ==
  \/ StartRecording(1)
  \/ StartRecordersAndListeners
  \/ StartRecordingReturns
  \/ IpcStopRecording(MaxStops)
  \/ KeydownStop(MaxStops)
  \/ StopRecordingBody
  \/ SaveSessionData
  \/ StopAllBegins
  \/ \E d \in Displays : ProcessExit(d)
  \/ \E d \in Displays : Timer1Fires(d)
  \/ \E d \in Displays : Timer2Fires(d)
  \/ \E d \in Displays : ExtractionFinishes(d)
  \/ StopAllReturns

SpecRecorders == InitRecorders /\ [][NextRecorders]_vars

\* The recorders under the scheduling of the event loop: a setImmediate
\* callback that is scheduled runs, a timer that is armed fires, a process
\* that a request it honours has reached exits, a frame extraction that was
\* started finishes, and a fulfilled Promise.all resumes its waiter.
RecordersFairness ==
  /\ WF_vars(StopAllBegins)
  /\ WF_vars(StopAllReturns)
  /\ \A d \in Displays :
       /\ WF_vars(ProcessExit(d))
       /\ WF_vars(Timer1Fires(d))
       /\ WF_vars(Timer2Fires(d))
       /\ WF_vars(ExtractionFinishes(d))

SpecRecordersFair == InitRecorders /\ [][NextRecorders]_vars /\ RecordersFairness

\* The clock runs to MaxBoundsTime and any window, or none, is in front.
InitBounds ==
  /\ InitProgram
  /\ horizon = MaxBoundsTime
  /\ activeWindow \in Windows \cup {"none"}
  /\ recorderKind = "native"

\* The window bounds cache over up to MaxBoundsSessions sessions: the lookups
\* of session start, of the input handlers and of the focus poller.
NextBounds ==
  \/ StartRecording(MaxBoundsSessions)
  \/ StartListenersAndBounds
  \/ IpcStopRecording(MaxStops)
  \/ KeydownStop(MaxStops)
  \/ StopRecordingBody
  \/ HandlerLookup(MaxLookups)
  \/ \E i \in DOMAIN updates : UpdateWindowResolved(i)
  \/ \E i \in DOMAIN updates : UpdateBoundsResolved(i)
  \/ PollTick(MaxPollTicks)
  \/ PollResume
  \/ RefreshTimerFires
  \/ FocusChange

SpecBounds == InitBounds /\ [][NextBounds]_vars

\* ---------------------------------------------------------------- properties
LogIds == [i \in 1..Len(sessionData.events) |-> sessionData.events[i].id]

AscendingRun(n) == [i \in 1..n |-> i - 1]

\* C1: within one session the log is at all times the ascending, gap-free
\* sequence 0, 1, 2, ... of ids, and each logged event is a slot that
\* createEventSlot made in this session.
C1_LogIsAscendingRun ==
  /\ LogIds = AscendingRun(Len(sessionData.events))
  /\ \A i \in 1..Len(sessionData.events) :
       LET e == sessionData.events[i]
       IN \E r \in created : r.id = e.id /\ r.type = e.type /\ r.payload = e.payload

\* Slot 0 is logged while slot 2 completed before slot 1 and is held back.
C1_Witness ==
  /\ Len(sessionData.events) = 1
  /\ DOMAIN eventSlots = {1, 2}
  /\ eventSlots[1].pending
  /\ ~eventSlots[2].pending

\* C2: while the slot at maxCompletedEventId+1 is pending the log holds no
\* higher id, and the slot at maxCompletedEventId+1 is never a completed one
\* (a flush takes the whole contiguous run of completed slots).
C2_FlushBlockingMaximal ==
  LET cursor == maxCompletedEventId + 1 IN
  /\ (cursor \in DOMAIN eventSlots /\ eventSlots[cursor].pending)
        => \A i \in 1..Len(sessionData.events) : sessionData.events[i].id <= cursor
  /\ cursor \in DOMAIN eventSlots => eventSlots[cursor].pending

\* C3 as stated: in every reachable state the log holds exactly the ids
\* 0..maxCompletedEventId.
C3_LogIsRunToHighWaterMark ==
  LogIds = AscendingRun(maxCompletedEventId + 1)

\* C3 amended: the same while a recording is active.
C3_LogIsRunWhileRecording ==
  isRecording => LogIds = AscendingRun(maxCompletedEventId + 1)

\* The second session is recording and has flushed two events.
C3_Witness ==
  /\ isRecording
  /\ session = 2
  /\ maxCompletedEventId = 1
  /\ Len(sessionData.events) = 2

\* C4: slot ids follow the arrival order of the input events, and so does
\* the log.  (payload.arr is the position of the input event in the order of
\* delivery.)
C4_IdsFollowArrivalOrder ==
  /\ \A r, q \in created : r.payload.arr < q.payload.arr => r.id < q.id
  /\ \A i, j \in 1..Len(sessionData.events) :
       i < j => sessionData.events[i].payload.arr < sessionData.events[j].payload.arr

\* C5: every logged event is, field for field, what createEventSlot was
\* given for that id in the session of the log.
C5_LogHoldsOwnSlots ==
  \A i \in 1..Len(sessionData.events) :
    LET e == sessionData.events[i]
    IN /\ e.sess = sessionData.sessionNo
       /\ \E r \in created : r.id = e.id /\ r.type = e.type /\ r.payload = e.payload

\* C6: no id occurs twice in a session log.
C6_NoIdTwice ==
  \A i, j \in 1..Len(sessionData.events) :
    i # j => sessionData.events[i].id # sessionData.events[j].id

\* C7: a complete call made after the first completion of that handle has
\* finished starts no new capture (it changes nothing, or reports an error
\* and returns), so no such call is ever in flight.
C7_SecondCompleteIsNoOp ==
  \A c \in completions : ~c.again

\* C8: within a session createEventSlot returns 0, 1, 2, ...: each id is
\* larger than every id returned before in that session, the first is 0.
C8_IdsStrictlyIncrease ==
  [][\A r \in created' \ created :
       /\ r.id = Cardinality(created)
       /\ \A q \in created : q.id < r.id]_vars

\* In the second session a handler that resumed after the stop has created
\* slot 1: the counter restarted at 0 with the session and went on after
\* the stop.
C8_Witness ==
  /\ session = 2
  /\ ~isRecording
  /\ {r.id : r \in created} = {0, 1}
  /\ 1 \in DOMAIN eventSlots

\* C9: a logged event's timestamp is the session-relative time of the
\* instant its slot was created, and the log is in strictly ascending id
\* order and ascending timestamp order.
C9_TimestampsAtCreation ==
  /\ \A i \in 1..Len(sessionData.events) :
       LET e == sessionData.events[i]
       IN \E r \in created :
            /\ r.payload = e.payload
            /\ e.timestamp = r.at - sessionData.startTime
  /\ \A i, j \in 1..Len(sessionData.events) :
       i < j => /\ sessionData.events[i].id < sessionData.events[j].id
                /\ sessionData.events[i].timestamp <= sessionData.events[j].timestamp

\* C10: a slot that was pending when stopRecording cleared the registry is
\* in no session log.
C10_DroppedNeverLogged ==
  \A i \in 1..Len(sessionData.events) : ~sessionData.events[i].dropped

\* C11: once stopRecording has set endTime, the events and the screenshots
\* of that session record do not change any more, and a session file that
\* was written holds the events and screenshots the record has.
C11_SealedRecordFrozen ==
  /\ [][(sessionData.endTime # 0 /\ sessionData'.sessionNo = sessionData.sessionNo)
          => /\ sessionData'.events = sessionData.events
             /\ sessionData'.screenshots = sessionData.screenshots]_vars
  /\ [](sessionFile.writes > 0
          => /\ sessionFile.content.events = sessionData.events
             /\ sessionFile.content.screenshots = sessionData.screenshots)

\* C12: the stop sequence runs once for a session: the part of stopRecording
\* after the final screenshot runs only while the recording is still active,
\* and the session file of a session is written at most once.
C12_StopSequenceOnce ==
  /\ [][stopsPending' < stopsPending => isRecording]_vars
  /\ [](sessionFile.writes <= 1)

\* C13: a startRecording call made while isRecording is true changes neither
\* the event counter, the slot map, the high-water mark, the session record,
\* the task name nor the start-up of the recorders.
C13_StartWhileRecordingIsNoOp ==
  [][startCalls' # startCalls =>
       UNCHANGED <<isRecording, eventCounter, eventSlots, maxCompletedEventId,
                   sessionData, currentTaskName, startsPending, listening,
                   session, sessionFile>>]_vars

\* A start request was ignored while a stop was waiting for its final
\* screenshot and the session had already created a slot.
C13_Witness ==
  /\ startCalls = 1
  /\ isRecording
  /\ stopsPending > 0
  /\ eventCounter > 0
  /\ currentTaskName = SessionTask

\* C14: a session that starts sees nothing of an earlier one: at the start
\* the event counter is 0, the slot map is empty, the high-water mark is -1
\* and the log is empty, and while the session records the bounds cache holds
\* no entry whose resolution was started during an earlier session.
C14_NewSessionSeesNoEarlierState ==
  /\ [][session' # session
          => /\ eventCounter' = 0
             /\ eventSlots' = EmptyMap
             /\ maxCompletedEventId' = -1
             /\ sessionData'.events = << >>
             /\ cachedAppBounds' = NoBounds]_vars
  /\ [](isRecording => (cachedAppBounds = NoBounds \/ cachedAppBounds.sess = session))

\* C15: at most one resolution is suspended in updateCachedAppBounds at any
\* time, and boundsUpdateInProgress is true exactly while one is.
C15_OneResolutionInFlight ==
  /\ Len(updates) <= 1
  /\ boundsUpdateInProgress = (Len(updates) = 1)

\* No entry is cached, the resolution started by startRecording is in
\* flight, and both lookups of the input handlers met it.
C15_Witness ==
  /\ cachedAppBounds = NoBounds
  /\ Len(updates) = 1
  /\ updates[1].caller = "start"
  /\ Len(updates[1].joined) = MaxLookups

\* C16: a lookup that met a resolution in flight got the value that
\* resolution returned when it finished.
C16_JoinersGetResolvedValue ==
  \A k \in 1..Len(lastReturn.joined) : lastReturn.joined[k] = lastReturn.value

\* C17: a handler lookup made less than BOUNDS_CACHE_DURATION after the
\* resolution that stored the cache entry succeeded returns that entry and
\* starts no resolution.
C17_FreshAfterSuccess ==
  [][(/\ lookups' # lookups
      /\ cachedAppBounds # NoBounds
      /\ now' - cachedAppBounds.storedAt < BOUNDS_CACHE_DURATION)
       => /\ Len(updates') = Len(updates)
          /\ lastReturn'.value = cachedAppBounds]_vars

\* C18: the step in which a resolution fails (no window, no bounds, or an
\* exception) leaves cachedAppBounds, cachedAppWindow and lastBoundsUpdate
\* as they are.
C18_FailureKeepsCache ==
  [][(/\ Len(updates') < Len(updates)
      /\ lastReturn'.outcome \in {"noWindow", "noBounds", "error"})
       => UNCHANGED <<cachedAppBounds, cachedAppWindow, lastBoundsUpdate>>]_vars

\* A bounds query returned nothing while an entry was cached: the entry is
\* still there.
C18_Witness ==
  /\ lastReturn.outcome = "noBounds"
  /\ lastReturn.cached # NoBounds
  /\ cachedAppBounds = lastReturn.cached
  /\ cachedAppWindow # "none"
  /\ lastBoundsUpdate > 0

\* C19: a lookup whose resolution failed returns the entry the cache holds
\* (null only when it holds none).
C19_ServeStaleOnError ==
  lastReturn.outcome \in {"noWindow", "noBounds", "error"}
    => lastReturn.value = lastReturn.cached

\* C20: the refresh that the focus poller schedules after it saw a new
\* active window resolves the bounds anew: when its timer fires while the
\* cache holds the bounds of another window than the one the poller saw, a
\* resolution is in flight afterwards, whatever the age of the cached entry.
C20_RefreshResolvesAnew ==
  [][(/\ refreshTimers' < refreshTimers
      /\ lastActiveWindowId # "none"
      /\ cachedAppBounds # NoBounds
      /\ cachedAppBounds.window # lastActiveWindowId)
       => boundsUpdateInProgress']_vars

ScrollSlots == {r \in created : r.type = "scroll_sequence"}

\* C21: the scroll_sequence slot made for a burst (the samples between two
\* firings of the debounce timer) has the absolute value of the sum of the
\* burst's rotations as totalAmount, the number of its samples as
\* individualScrolls, the sign of the sum as direction and the position of
\* its last sample.
C21_SlotDescribesItsBurst ==
  \A r \in ScrollSlots :
    LET b == r.payload.burst
    IN /\ r.payload.totalAmount = Abs(b.sum)
       /\ r.payload.individualScrolls = b.n
       /\ r.payload.direction = Direction(b.sum)
       /\ r.payload.x = b.last

\* C22: a firing of the debounce timer that finds a total below the
\* threshold creates no slot, takes no id and starts no capture or lookup,
\* and leaves no sample in the accumulator; a sample that finds no sample in
\* the accumulator starts the total from its own rotation.
C22_DiscardBelowThreshold ==
  [][/\ (/\ scrollDebounceTimer /\ ~scrollDebounceTimer' /\ savesPending' = savesPending
         /\ Len(scrollAccumulator.events) > 0
         /\ BelowThreshold(Abs(scrollAccumulator.totalVertical)))
        => /\ UNCHANGED <<eventCounter, eventSlots, completions, flushes, created>>
           /\ Len(scrollAccumulator'.events) = 0
     /\ (wheels' # wheels /\ Len(scrollAccumulator.events) = 0)
        => /\ Len(scrollAccumulator'.events) = 1
           /\ Abs(scrollAccumulator'.totalVertical) = 1]_vars

\* Two samples that cancel out were discarded: the recording goes on with no
\* sample held, no timer set, no slot made and no lookup in flight.
C22_Witness ==
  /\ isRecording
  /\ stopsPending = 0
  /\ wheels = 2
  /\ Len(scrollAccumulator.events) = 0
  /\ ~scrollDebounceTimer
  /\ eventCounter = 0
  /\ flushes = {}

\* C23: no wheel sample is counted in the totals of two scroll_sequence
\* slots.
C23_SampleCountedOnce ==
  \A r, q \in ScrollSlots :
    r.id # q.id => r.payload.samples \cap q.payload.samples = {}

\* C24: a recorder process that ignores the graceful request, that every
\* request sent so far has reached, and that is still running when the
\* second timer has fired has been sent the graceful request, then SIGTERM,
\* then SIGKILL.
C24_EscalatesToKill ==
  \A d \in Displays :
    LET p == procs[d]
    IN (/\ p.state = "running"
        /\ p.mode # "obedient"
        /\ p.timer2 = "fired"
        /\ p.delivered = {p.signals[i] : i \in 1..Len(p.signals)})
       => /\ Len(p.signals) = 3
          /\ p.signals[1] \in GracefulRequests(recorderKind)
          /\ p.signals[2] = "SIGTERM"
          /\ p.signals[3] = "SIGKILL"

\* C25: the stop promise of a recorder process is resolved only when the
\* process is no longer running.
C25_ResolvedOnlyAfterExit ==
  \A d \in Displays : procs[d].resolved => procs[d].state # "running"

\* C26: once the stop of all recorders has begun, every managed process has
\* been sent the graceful request, and once it has returned no process is
\* running.
C26_StopAllWaitsForAll ==
  /\ stopAll # "none" =>
       \A d \in Displays :
         procs[d].state \in {"running", "failed", "exited"} => Len(procs[d].signals) >= 1
  /\ stopAll = "returned" =>
       \A d \in Displays : procs[d].state # "running"

\* C27: while the frame extraction started at the exit of a native recorder
\* is running, the stop promise of that process is already resolved.
C27_StopDoesNotAwaitExtraction ==
  \A d \in Displays : procs[d].extraction = "running" => procs[d].resolved

\* C28: the step in which stopRecording runs to its end leaves isRecording
\* false and reports success, and it changes neither a recorder process nor
\* the session file: it waits for no exit, no extraction and no write.
C28_StopReturnsWithoutWaiting ==
  [][stopsPending' < stopsPending
       => /\ ~isRecording'
          /\ stopReply' = "success"
          /\ procs' = procs
          /\ sessionFile' = sessionFile
          /\ saveOutcome' = saveOutcome]_vars

\* stopRecording has returned success while a recorder that honours nothing
\* but SIGKILL is running, the stop of the recorders has not begun and the
\* file is not written.
C28_Witness ==
  /\ ~isRecording
  /\ stopReply = "success"
  /\ \E d \in Displays : procs[d].state = "running" /\ procs[d].mode = "ignoresTerm"
  /\ stopAll = "none"
  /\ stopAlls > 0
  /\ savesPending > 0
  /\ saveOutcome = "none"

\* C29: when the write of the session file at stop has failed, the stop has
\* reported an error.
C29_WriteFailureReported ==
  saveOutcome = "failed" => stopReply = "error"

SpawnFailed(d) == procs[d].state \in {"failed", "thrown"}

\* C30: when the spawn for exactly one display failed and startRecording has
\* answered (no stop requested yet), the answer is an error, the recorder of
\* every other display runs, and the session records events.
C30_SpawnFailureIsLocal ==
  \A d \in Displays :
    (/\ SpawnFailed(d)
     /\ \A e \in Displays \ {d} : ~SpawnFailed(e)
     /\ startReply \in {"success", "error"}
     /\ isRecording /\ stopsPending = 0)
    => /\ startReply = "error"
       /\ \A e \in Displays \ {d} : procs[e].state = "running"
       /\ listening

\* C34: the slot map holds no id less than or equal to maxCompletedEventId
\* (a flushed slot is gone from the registry and no completion writes it
\* again).
C34_FlushedSlotsAreGone ==
  \A id \in DOMAIN eventSlots : id > maxCompletedEventId

\* C37: a step that takes a sequence id (creates a slot) is taken while the
\* session is recording.
C37_SlotsOnlyWhileRecording ==
  [][eventCounter' > eventCounter => isRecording]_vars

\* C38: when startRecording has failed and its caller was given an error,
\* the program is not recording.
C38_FailedStartLeavesNotRecording ==
  startReply = "error" => ~isRecording

\* C39: a stop of all recorders that has begun eventually returns and clears
\* the list of managed processes, whatever the recorders did before; stated
\* here for recorders that exit on the first request that reaches them.
C39_StopAllTerminates ==
  (stopAll = "waiting" /\ \A d \in Displays : procs[d].mode = "obedient")
    ~> (stopAll = "returned" /\ managed = {})

LoggedEvents == {sessionData.events[i] : i \in 1..Len(sessionData.events)}

\* C31: the screenshot paths recorded for an event carry the id of the event
\* and no time stamp: they are determined by task name, event id and display.
C31_PathsFromEventId ==
  \A e \in LoggedEvents :
    e.screenshots.present =>
      /\ \A p \in e.screenshots.displays : p.event = e.id /\ p.stamp = 0
      /\ e.screenshots.appWindow # NoPath =>
           /\ e.screenshots.appWindow.event = e.id
           /\ e.screenshots.appWindow.stamp = 0

\* C32: whatever the capture did, the step in which a completion returns
\* leaves its slot completed, in the map or appended to the log, and appends
\* it when it is the slot at maxCompletedEventId+1.
C32_CaptureFailureNotFatal ==
  [][\A c \in completions :
       completions' = completions \ {c} =>
         /\ \/ /\ c.eventId \in DOMAIN eventSlots'
               /\ ~eventSlots'[c.eventId].pending
            \/ \E i \in (Len(sessionData.events) + 1)..Len(sessionData'.events) :
                 sessionData'.events[i].id = c.eventId
         /\ c.eventId = maxCompletedEventId + 1 => maxCompletedEventId' >= c.eventId]_vars

\* The log of a running session holds slot 0, whose capture returned
\* nothing, and behind it slot 1, whose capture failed for every display.
C32_Witness ==
  /\ isRecording
  /\ Len(sessionData.events) = 2
  /\ sessionData.events[1].id = 0
  /\ ~sessionData.events[1].screenshots.present
  /\ sessionData.events[2].id = 1
  /\ sessionData.events[2].screenshots.present
  /\ sessionData.events[2].screenshots.succeeded = {}

\* C35: the displays listed in the screenshots of a logged event are the
\* displays whose capture succeeded for it.
C35_ListedDisplaysSucceeded ==
  \A e \in LoggedEvents :
    e.screenshots.present =>
      {p.display : p \in e.screenshots.displays} = e.screenshots.succeeded

\* The place of a point of the desktop in a window: the point minus the
\* origin of the window, and whether that lies within its width and height.
PlaceIn(px, py, b) ==
  [present |-> TRUE, x |-> px - b.x, y |-> py - b.y,
   isInsideApp |-> /\ 0 <= px - b.x /\ px - b.x <= b.width
                   /\ 0 <= py - b.y /\ py - b.y <= b.height]

\* C33: a logged click, drag or scroll carries appRelative if and only if
\* the bounds lookup made for it returned bounds; the values are then the
\* desktop coordinates minus the origin of the returned bounds, with
\* isInsideApp true exactly when 0 <= relX <= width and 0 <= relY <= height.
C33_RelativeIffBounds ==
  \A e \in LoggedEvents :
    e.type \in {"click", "drag", "scroll_sequence"} =>
      LET b == e.payload.bounds
      IN /\ e.appRelative.present <=> b.present
         /\ e.appRelative.present =>
              IF e.type = "drag"
              THEN /\ e.appRelative.start = PlaceIn(e.payload.startX, e.payload.startY, b)
                   /\ e.appRelative.end = PlaceIn(e.payload.endX, e.payload.endY, b)
              ELSE e.appRelative = PlaceIn(e.payload.x, e.payload.y, b)

\* A click inside the window, a drag from inside the window to a point left
\* of it and a scroll whose lookup returned nothing are in the log.
C33_Witness ==
  /\ \E e \in LoggedEvents :
       e.type = "click" /\ e.appRelative.present /\ e.appRelative.isInsideApp
  /\ \E e \in LoggedEvents :
       /\ e.type = "drag" /\ e.appRelative.present
       /\ e.appRelative.start.isInsideApp
       /\ ~e.appRelative.end.isInsideApp /\ e.appRelative.end.x < 0
  /\ \E e \in LoggedEvents :
       e.type = "scroll_sequence" /\ ~e.appRelative.present

\* C40: a release more than 10 pixels from its press produces a drag slot
\* with the point of that press as start and its own point as end, also when
\* other presses arrive while the handler or the enrichment of the drag is
\* in flight; and a remembered press is cleared only after its own release.
C40_DragPairsKept ==
  /\ \A r \in created :
       r.type = "drag" =>
         /\ r.payload.startX = r.payload.press.pos.x
         /\ r.payload.startY = r.payload.press.pos.y
         /\ r.payload.button = r.payload.press.button
  /\ (~lastMouseDown.present /\ lastMouseDown.arr > 0) => lastMouseDown.released

\* Session s is the current one and no stop of it has begun.
Running(s) == session = s /\ isRecording /\ stopsPending = 0

\* The slot created under this id in session s is in the log of session s.
Logged(id, s) ==
  session = s /\ \E e \in LoggedEvents : e.id = id /\ e.sess = s

\* C36: when every capture returns, a slot created in a session is appended
\* to the log of that session unless the session is stopped first; and while
\* a slot of the session is pending, no slot of the session with a higher id
\* is in the log.
C36_EverySlotLogged ==
  /\ \A id \in 0..(MaxLiveInputs - 1), s \in 1..MaxSessions :
       (Running(s) /\ id \in DOMAIN eventSlots /\ eventSlots[id].sess = s)
         ~> (Logged(id, s) \/ ~Running(s))
  /\ [](\A id \in DOMAIN eventSlots, s \in 1..MaxSessions :
         (Running(s) /\ eventSlots[id].sess = s /\ eventSlots[id].pending)
           => ~\E e \in LoggedEvents : e.sess = s /\ e.id > id)

TypeOK ==
  /\ isRecording \in BOOLEAN
  /\ eventCounter \in 0..MaxSessionInputs
  /\ maxCompletedEventId \in -1..MaxSessionInputs

====
